---- MODULE Spec2Model ----
(***************************************************************************)
(* Offline mutation queue and optimistic-update reconciliation of the      *)
(* Monie frontend: the Axios request interceptor (api/client.ts), the      *)
(* Queue Store (utils/syncQueue.ts), the Display Cache                     *)
(* (utils/offlineDisplayCache.ts), the optimistic applier                  *)
(* (utils/optimisticUpdates.ts) and the sync engine (hooks/useOfflineSync).*)
(***************************************************************************)
EXTENDS Integers, Sequences, FiniteSets, TLC

VARIABLES
    online,        \* navigator.onLine / useOnlineStatus()
    token,         \* localStorage['monie_token']
    apiAuth,       \* api.defaults.headers.common['Authorization']
    mounted,       \* ProtectedApp (and with it OfflineIndicator's hook) is mounted
    isSyncing,     \* useState isSyncing of the mounted useOfflineSync instance
    queue,         \* localStorage['offline_sync_queue']
    displayCache,  \* localStorage['offline_display_cache']
    queryCache,    \* the React Query in-memory cache, per query key
    runs,          \* the invocations of syncQueue that reached the replay loop,
                   \* each with the replay requests it handed to the network
    clock,         \* source of Date.now()/Math.random() derived ids
    calls,         \* the number of calls issued through the api client
    inflight,      \* the calls of the api client awaiting their response
    last,          \* the last thing a caller or the user was given: the end
                   \* of a call, of a response, of a call of syncQueue
    perm,          \* usePermissions: the inputs of a check and its answers
    selectedAccount  \* localStorage['monie_selected_account']

vars == <<online, token, apiAuth, mounted, isSyncing, queue, displayCache,
          queryCache, runs, clock, calls, inflight, last, perm, selectedAccount>>

----------------------------------------------------------------------------
(* Bounds *)

MaxReq == 2        \* calls issued through the api client
MaxRuns == 2       \* invocations of syncQueue that reach the replay loop
MaxMembers == 2    \* members of the workspace

----------------------------------------------------------------------------
(* Values *)

NoToken == "null"
Tokens == {"t1", "t2"}
\* the budget accounts the user can select
Accounts == {"a1", "a2"}
NoOpt == [tempId |-> 0, queryKey |-> <<>>]
\* a query key with no query in the cache, and a query holding rows
Absent == [exists |-> FALSE, data |-> <<>>]
Query(rows) == [exists |-> TRUE, data |-> rows]
ServerRow == [id |-> 0, _tempId |-> 0, _offline |-> FALSE, budget_period_id |-> "p7"]

\* URLs are sequences of tokens so that String.includes is a real
\* substring test.
TxUrl == <<"/", "transactions">>
PlannedUrl == <<"/", "planned", "-", "transactions">>
ExchangeUrl == <<"/", "currency", "-", "exchanges">>
CategoryUrl == <<"/", "categories">>
PeriodUrl == <<"/", "budget", "-", "periods">>
BudgetUrl == <<"/", "budgets">>
TxItemUrl == <<"/", "transactions", "/", "5">>
UsersMeUrl == <<"/", "users", "/", "me">>
LoginUrl == <<"/", "auth", "/", "login">>
RegisterUrl == <<"/", "auth", "/", "register">>

\* The calls the UI issues in this model: [method, url, data.budget_period_id]
Requests ==
    {[method |-> "post", url |-> u, budget_period_id |-> "p7"] :
        u \in {TxUrl, PlannedUrl, ExchangeUrl, CategoryUrl, PeriodUrl, BudgetUrl}}
    \cup {[method |-> "post", url |-> TxUrl, budget_period_id |-> "p8"],
          [method |-> "put", url |-> TxItemUrl, budget_period_id |-> "p7"],
          [method |-> "delete", url |-> TxItemUrl, budget_period_id |-> "undefined"],
          [method |-> "get", url |-> TxUrl, budget_period_id |-> "undefined"],
          [method |-> "patch", url |-> UsersMeUrl, budget_period_id |-> "undefined"]}

\* The calls issued where the sync engine is what is examined: a create with a
\* persisted placeholder, a create with an in-memory placeholder only, an
\* update without placeholder and a read.
SyncRequests ==
    {req \in Requests :
        \/ req.method = "post" /\ req.url \in {TxUrl, CategoryUrl}
                               /\ req.budget_period_id = "p7"
        \/ req.method \in {"put", "get"}}

\* Paths that match the test of more than one family, or the first test
\* but for its 'planned' exclusion: the applier is handed whatever path a
\* call of the api client names.
OverlapUrls ==
    {<<"/", "categories", "/", "5", "/", "transactions">>,
     <<"/", "budget", "-", "periods", "/", "5", "/", "categories">>,
     <<"/", "planned", "-", "transactions", "/", "5", "/", "transactions">>}

\* The calls the optimistic applier is examined under
ApplierRequests ==
    Requests \cup {[method |-> "post", url |-> u, budget_period_id |-> "p7"] :
                      u \in OverlapUrls}

\* The calls of the login and register pages: authApi.login, authApi.register
AuthRequests ==
    {[method |-> "post", url |-> u, budget_period_id |-> "undefined"] :
        u \in {LoginUrl, RegisterUrl}}

\* The calls issued where the handling of responses is what is examined
ResponseRequests ==
    {req \in Requests :
        \/ req.method = "post" /\ req.url = TxUrl /\ req.budget_period_id = "p7"
        \/ req.method \in {"delete", "get", "patch"}}
    \cup AuthRequests

\* How a request ends: with an HTTP status, or with axios' 'Network Error'
\* and no response.
Statuses == {"2xx", "401", "500", "Network Error"}

\* The ends of a replay request the sync engine is examined under: it treats
\* every failure alike.
ReplayStatuses == {"2xx", "401", "Network Error"}

\* What the localStorage quota admits of an enqueue's two writes (the Display
\* Cache item is written first and is the shorter one): both, the Display
\* Cache item only, or neither.
Rooms == {"both", "display", "none"}

\* The queries the pages keep in the in-memory cache.
QueryKeys == {<<"transactions", "p7", "filters">>,
              <<"transactions", "p8", "filters">>,
              <<"planned-transactions", "all", "p7">>,
              <<"currency-exchanges", "p7">>,
              <<"categories", "p7">>,
              <<"budget-periods", "acc1">>}

----------------------------------------------------------------------------
(* Pure helpers *)

\* String.prototype.includes on tokenised strings
Includes(s, needle) ==
    \E i \in 0..(Len(s) - Len(needle)) : SubSeq(s, i + 1, i + Len(needle)) = needle

\* config.url?.split('/').pop() || 'unknown'
RECURSIVE LastSegment(_)
LastSegment(s) ==
    IF s = <<>> THEN <<>>
    ELSE IF s[Len(s)] = "/" THEN <<>>
    ELSE Append(LastSegment(SubSeq(s, 1, Len(s) - 1)), s[Len(s)])

ToUpperCase(m) ==
    CASE m = "post" -> "POST"
      [] m = "put" -> "PUT"
      [] m = "delete" -> "DELETE"
      [] m = "get" -> "GET"
      [] m = "patch" -> "PATCH"

Description(config) ==
    <<ToUpperCase(config.method),
      IF LastSegment(config.url) = <<>> THEN <<"unknown">> ELSE LastSegment(config.url)>>

\* a classification that takes PATCH for a mutation as well
isMutation_WithPatch(config) == config.method \in {"post", "put", "delete", "patch"}

\* ['post', 'put', 'delete'].includes(config.method?.toLowerCase() || '')
isMutation(config) == config.method \in {"post", "put", "delete"}

\* React Query partial key matching: the filter key is a prefix of the query's key
MatchQuery(queryKey, k) ==
    /\ Len(queryKey) <= Len(k)
    /\ \A i \in 1..Len(queryKey) : k[i] = queryKey[i]

----------------------------------------------------------------------------
(* utils/offlineDisplayCache.ts *)

\* OfflineDisplayCache.saveItems: localStorage.setItem in a try/catch that
\* logs and swallows; written tells whether setItem stored the value.
saveItems(stored, items, written) == IF written THEN items ELSE stored

\* OfflineDisplayCache.addItem: getItems, push, saveItems.
\* Date.now() of the item is not modelled: nothing reads it.
addItem(items, tempId, entityType, budgetPeriodId, data, written) ==
    saveItems(items,
              Append(items, [tempId |-> tempId, entityType |-> entityType,
                             budgetPeriodId |-> budgetPeriodId, data |-> data]),
              written)

\* OfflineDisplayCache.removeItem: filter by tempId, saveItems. The value
\* written is never longer than the stored one, so setItem stores it.
removeItem(items, tempId) ==
    saveItems(items, SelectSeq(items, LAMBDA item : item.tempId # tempId), TRUE)

\* a lookup that filters by entity type only
getItemsByType_AnyPeriod(items, entityType, budgetPeriodId) ==
    LET kept == SelectSeq(items, LAMBDA item : item.entityType = entityType)
    IN  [j \in 1..Len(kept) |-> kept[j].data]

\* OfflineDisplayCache.getItemsByType(entityType, budgetPeriodId), the pages
\* passing selectedPeriodId (a period or null, never undefined): filter on
\* both, then map to item.data
getItemsByType(items, entityType, budgetPeriodId) ==
    LET kept == SelectSeq(items, LAMBDA item :
                    item.entityType = entityType /\ item.budgetPeriodId = budgetPeriodId)
    IN  [j \in 1..Len(kept) |-> kept[j].data]

----------------------------------------------------------------------------
(* utils/optimisticUpdates.ts *)

\* queryClient.setQueriesData({ queryKey }, old => [optimisticItem, ...old]):
\* only queries that exist in the cache and match the key are updated.
PrependToQueries(qc, queryKey, optimisticItem) ==
    [k \in QueryKeys |->
        IF qc[k].exists /\ MatchQuery(queryKey, k)
        THEN Query(<<optimisticItem>> \o qc[k].data)
        ELSE qc[k]]

\* a chain that tests for categories before anything else
Family_CategoriesFirst(url) ==
    IF Includes(url, <<"/", "categories">>)
    THEN "categories"
    ELSE IF Includes(url, <<"/", "transactions">>) /\ ~Includes(url, <<"planned">>)
    THEN "transactions"
    ELSE IF Includes(url, <<"/", "planned", "-", "transactions">>)
    THEN "planned-transactions"
    ELSE IF Includes(url, <<"/", "currency", "-", "exchanges">>)
    THEN "currency-exchanges"
    ELSE IF Includes(url, <<"/", "budget", "-", "periods">>)
    THEN "budget-periods"
    ELSE "none"

\* The ordered if / else-if chain over the url
Family(url) ==
    IF Includes(url, <<"/", "transactions">>) /\ ~Includes(url, <<"planned">>)
    THEN "transactions"
    ELSE IF Includes(url, <<"/", "planned", "-", "transactions">>)
    THEN "planned-transactions"
    ELSE IF Includes(url, <<"/", "currency", "-", "exchanges">>)
    THEN "currency-exchanges"
    ELSE IF Includes(url, <<"/", "categories">>)
    THEN "categories"
    ELSE IF Includes(url, <<"/", "budget", "-", "periods">>)
    THEN "budget-periods"
    ELSE "none"

\* The entity type under which a family's placeholder is persisted in the
\* Display Cache; categories and budget periods have no addItem call.
PersistedAs(family) ==
    CASE family = "transactions" -> "transaction"
      [] family = "planned-transactions" -> "planned-transaction"
      [] family = "currency-exchanges" -> "currency-exchange"
      [] OTHER -> "none"

\* The lookup key of a family: period-scoped for the first three
FamilyQueryKey(family, config) ==
    IF family \in {"categories", "budget-periods"}
    THEN <<family>>
    ELSE <<family, config.data.budget_period_id>>

\* an applier that makes a placeholder for a request of any method
performOptimisticUpdate_AnyMethod(qc, dc, config, tempId, written) ==
    LET family == Family(config.url)
        queryKey == FamilyQueryKey(family, config)
        optimisticItem == [id |-> tempId, _tempId |-> tempId, _offline |-> TRUE,
                           budget_period_id |-> config.data.budget_period_id]
        periodOrNull == IF config.data.budget_period_id = "undefined"
                        THEN "null" ELSE config.data.budget_period_id
    IN  IF family = "none"
        THEN [optimisticData |-> NoOpt, qc |-> qc, dc |-> dc]
        ELSE [optimisticData |-> [tempId |-> tempId, queryKey |-> queryKey],
              qc |-> PrependToQueries(qc, queryKey, optimisticItem),
              dc |-> IF PersistedAs(family) # "none"
                     THEN addItem(dc, tempId, PersistedAs(family), periodOrNull,
                                  optimisticItem, written)
                     ELSE dc]

\* performOptimisticUpdate(queryClient, config) with tempId the generated
\* temporary id and written the fate of the Display Cache write; yields the
\* returned OptimisticData (NoOpt for null) and the two caches as it leaves
\* them.
performOptimisticUpdate(qc, dc, config, tempId, written) ==
    LET family == Family(config.url)
        queryKey == FamilyQueryKey(family, config)
        optimisticItem == [id |-> tempId, _tempId |-> tempId, _offline |-> TRUE,
                           budget_period_id |-> config.data.budget_period_id]
        periodOrNull == IF config.data.budget_period_id = "undefined"
                        THEN "null" ELSE config.data.budget_period_id
    IN  IF config.method # "post" \/ family = "none"
        THEN [optimisticData |-> NoOpt, qc |-> qc, dc |-> dc]
        ELSE [optimisticData |-> [tempId |-> tempId, queryKey |-> queryKey],
              qc |-> PrependToQueries(qc, queryKey, optimisticItem),
              dc |-> IF PersistedAs(family) # "none"
                     THEN addItem(dc, tempId, PersistedAs(family), periodOrNull,
                                  optimisticItem, written)
                     ELSE dc]

\* removeOptimisticItem(queryClient, queryKey, tempId): the in-memory part
FilterQueries(qc, queryKey, tempId) ==
    [k \in QueryKeys |->
        IF qc[k].exists /\ MatchQuery(queryKey, k)
        THEN Query(SelectSeq(qc[k].data, LAMBDA item : item._tempId # tempId))
        ELSE qc[k]]

----------------------------------------------------------------------------
(* utils/syncQueue.ts *)

\* SyncQueueManager.saveQueue: localStorage.setItem in a try/catch that logs
\* and swallows; written tells whether setItem stored the value. getQueue
\* reads localStorage again on every call: there is no list in memory.
saveQueue(stored, q, written) == IF written THEN q ELSE stored

\* an enqueue that puts the new entry in front (unshift instead of push)
addToQueue_Unshift(q, id, config, description, optimisticData, context, written) ==
    saveQueue(q,
              <<[id |-> id,
                 config |-> [method |-> config.method, url |-> config.url,
                             data |-> config.data, headers |-> config.headers],
                 description |-> description,
                 optimisticData |-> optimisticData,
                 workspaceId |-> context.workspaceId,
                 accountId |-> context.accountId]>> \o q,
              written)

\* SyncQueueManager.addToQueue: getQueue, push, saveQueue. The id is
\* returned whether or not the write succeeded.
addToQueue(q, id, config, description, optimisticData, context, written) ==
    saveQueue(q,
              Append(q, [id |-> id,
                         config |-> [method |-> config.method, url |-> config.url,
                                     data |-> config.data, headers |-> config.headers],
                         description |-> description,
                         optimisticData |-> optimisticData,
                         workspaceId |-> context.workspaceId,
                         accountId |-> context.accountId]),
              written)

\* a removal that filters but never saves the filtered list
removeFromQueue_NoSave(q, id) == q

\* SyncQueueManager.removeFromQueue: getQueue, filter by id, saveQueue. The
\* value written is never longer than the stored one, so setItem stores it.
removeFromQueue(q, id) ==
    saveQueue(q, SelectSeq(q, LAMBDA req : req.id # id), TRUE)

hasPendingRequests == Len(queue) > 0

QueueIds == {queue[j].id : j \in 1..Len(queue)}

----------------------------------------------------------------------------
(* hooks/usePermissions.ts *)

Roles == {"owner", "admin", "member", "viewer"}

\* user?.id of useAuth(): 0 for no user, otherwise a user id, the last of
\* which belongs to no member of the workspace
UserIds == 0..(MaxMembers + 1)

\* the members list of the workspace: the member with user_id m has role
\* members[m]
MemberLists == [1..MaxMembers -> Roles]

NoPerm == [asked |-> FALSE]

\* WorkspaceProvider: currentMembership = members.find(m => m.user_id ===
\* user?.id), userRole = currentMembership?.role || null
userRole(members, user) ==
    IF user \in DOMAIN members THEN members[user] ELSE "none"

\* a check that lets an admin edit other admins
canEditMember_AdminAny(user, role, member) ==
    IF user = 0 \/ member.user_id = user THEN FALSE
    ELSE IF member.role = "owner" THEN FALSE
    ELSE IF role = "owner" THEN TRUE
    ELSE IF role = "admin" THEN TRUE
    ELSE FALSE

\* canEditMember(member), user and role being useAuth().user?.id (0 for none)
\* and useWorkspace().userRole
canEditMember(user, role, member) ==
    IF user = 0 \/ member.user_id = user THEN FALSE
    ELSE IF member.role = "owner" THEN FALSE
    ELSE IF role = "owner" THEN TRUE
    ELSE IF role = "admin" THEN member.role = "member" \/ member.role = "viewer"
    ELSE FALSE

\* canResetPasswordFor(member)
canResetPasswordFor(user, role, member) ==
    IF user = 0 \/ member.user_id = user THEN FALSE
    ELSE IF member.role = "owner" THEN FALSE
    ELSE IF role = "owner" THEN TRUE
    ELSE IF role = "admin" THEN member.role = "member" \/ member.role = "viewer"
    ELSE FALSE

----------------------------------------------------------------------------
(* State *)

\* the value syncQueue returns
Result(success, processed, failed) ==
    [success |-> success, processed |-> processed, failed |-> failed]

\* a call of syncQueue that has not returned
Pending == [success |-> FALSE, processed |-> -1, failed |-> -1]

\* Nothing was given to anyone yet. kind is "call" (the request interceptor
\* ended a call of the api client), "response" (the response interceptor
\* did), "sync" (syncQueue returned at once or started a run), "replay" (a
\* replay request of a run ended) or "return" (a run returned); result is
\* what the caller of the api client gets, returned what the caller of
\* syncQueue gets, toast the notification shown, warnings what a run logged
\* about the context of the entry it is about to replay.
NoEvent == [kind |-> "none", method |-> "none", status |-> "none",
            network |-> FALSE, result |-> "none", toast |-> "none",
            returned |-> Pending, warnings |-> <<>>]

\* the event e replaces the last one
Emit(e) ==
    last' = [f \in DOMAIN NoEvent |-> IF f \in DOMAIN e THEN e[f] ELSE NoEvent[f]]

\* The application is started, online, in the session of token t1, its pages
\* have fetched their queries and both persisted stores are empty.
InitApp ==
    /\ online = TRUE
    /\ token = "t1"
    /\ apiAuth = "t1"
    /\ mounted = TRUE
    /\ isSyncing = FALSE
    /\ queue = <<>>
    /\ displayCache = <<>>
    /\ queryCache = [k \in QueryKeys |-> Query(<<ServerRow>>)]
    /\ runs = <<>>
    /\ clock = 0
    /\ calls = 0
    /\ inflight = {}
    /\ last = NoEvent
    /\ selectedAccount = "a1"

Init ==
    /\ InitApp
    /\ perm = NoPerm

\* The members page is shown for some members list, current user and member
\* of the list, the two checks not yet made.
InitPermissions ==
    /\ InitApp
    /\ \E members \in MemberLists, user \in UserIds, target \in 1..MaxMembers :
          perm = [asked |-> FALSE, members |-> members, user |-> user,
                  role |-> userRole(members, user),
                  member |-> [user_id |-> target, role |-> members[target]],
                  canEdit |-> FALSE, canReset |-> FALSE]

----------------------------------------------------------------------------
(* Environment: connectivity, pages, session *)

\* BudgetAccountProvider.setSelectedAccountId: the user picks an account, or
\* the provider selects one
SelectAccount(a) ==
    /\ mounted
    /\ a # selectedAccount
    /\ selectedAccount' = a
    /\ UNCHANGED <<online, token, apiAuth, mounted, isSyncing, queue, displayCache,
                   queryCache, runs, clock, calls, inflight, last, perm>>

\* the browser's offline event
GoOffline ==
    /\ online
    /\ online' = FALSE
    /\ UNCHANGED <<token, apiAuth, mounted, isSyncing, queue, displayCache,
                   queryCache, runs, clock, calls, inflight, last, perm, selectedAccount>>

\* the browser's online event
GoOnline ==
    /\ ~online
    /\ online' = TRUE
    /\ UNCHANGED <<token, apiAuth, mounted, isSyncing, queue, displayCache,
                   queryCache, runs, clock, calls, inflight, last, perm, selectedAccount>>

\* The pages' useQuery calls (re)fetch: every query holds the server's rows,
\* which carry no placeholder.
FetchQueries ==
    /\ mounted /\ online
    /\ queryCache' = [k \in QueryKeys |-> Query(<<ServerRow>>)]
    /\ UNCHANGED <<online, token, apiAuth, mounted, isSyncing, queue, displayCache,
                   runs, clock, calls, inflight, last, perm, selectedAccount>>

\* AuthProvider.logout: clearAuthToken, setUser(null), queryClient.clear(),
\* navigate('/login'). ProtectedRoute unmounts the application and with it
\* the useOfflineSync instance; a syncQueue call already running keeps
\* running, its setState calls reaching no mounted instance.
logout ==
    /\ mounted
    /\ token' = NoToken
    /\ apiAuth' = NoToken
    /\ mounted' = FALSE
    /\ isSyncing' = FALSE
    /\ queryCache' = [k \in QueryKeys |-> Absent]
    /\ runs' = [r \in 1..Len(runs) |-> [runs[r] EXCEPT !.hookMounted = FALSE]]
    /\ UNCHANGED <<online, queue, displayCache, clock, calls, inflight, last, perm, selectedAccount>>

\* AuthProvider.login, the server answering with access_token t:
\* setAuthToken, queryClient.clear(), setUser, navigate('/'). The
\* application mounts a fresh useOfflineSync instance (isSyncing false).
login(t) ==
    /\ ~mounted /\ online
    /\ token' = t
    /\ apiAuth' = t
    /\ mounted' = TRUE
    /\ isSyncing' = FALSE
    /\ queryCache' = [k \in QueryKeys |-> Absent]
    /\ UNCHANGED <<online, queue, displayCache, runs, clock, calls, inflight, last, perm, selectedAccount>>

----------------------------------------------------------------------------
(* api/client.ts: the interceptors *)

\* The InternalAxiosRequestConfig the request interceptor sees for a call:
\* its headers already carry api.defaults.headers.common, except for the
\* authApi calls, which set Authorization to ''. data is the body handed to
\* the call: the fields of a record, or the e-mail and password of
\* LoginRequest and RegisterRequest.
ConfigOf(req) ==
    [method |-> req.method, url |-> req.url,
     data |-> [budget_period_id |-> req.budget_period_id,
               body |-> IF req \in AuthRequests THEN "credentials" ELSE "fields"],
     headers |-> [Authorization |-> IF req \in AuthRequests THEN "" ELSE apiAuth]]

\* error.config of a call that reached the adapter: axios has replaced
\* config.data by the serialised body (transformRequest), a string, whose
\* property reads yield undefined.
TransformRequest(config) ==
    [config EXCEPT !.data = [budget_period_id |-> "undefined", body |-> @.body]]

\* payload.current_workspace_id of the JWT: each token is of another
\* workspace; undefined without a token
WorkspaceOf(tok) ==
    CASE tok = "t1" -> "w1"
      [] tok = "t2" -> "w2"
      [] OTHER -> "undefined"

\* getOfflineContext(): the workspace of the stored token and the selected
\* account
getOfflineContext(tok, account) ==
    [workspaceId |-> WorkspaceOf(tok), accountId |-> account]

\* the set of runs that are in progress
Running == {r \in 1..Len(runs) : runs[r].pc # "done" /\ runs[r].alive}

\* window.location.pathname === '/login' || === '/register': the
\* unauthenticated routes are the ones shown while ProtectedApp is not
isAuthRoute == ~mounted

\* The sequence both interceptors run for a mutation that cannot reach the
\* network: performOptimisticUpdate, addToQueue (toast.success and the
\* OfflineError are in the events of the two interceptors). room says which
\* of the two localStorage writes the quota admits.
QueueOffline(config, room) ==
    LET upd == performOptimisticUpdate(queryCache, displayCache, config, clock + 1,
                                       room = "both" \/ room = "display")
    IN  /\ queryCache' = upd.qc
        /\ displayCache' = upd.dc
        /\ queue' = addToQueue(queue, clock + 1, config, Description(config),
                               upd.optimisticData,
                               getOfflineContext(token, selectedAccount),
                               room = "both")
        /\ clock' = clock + 1
        /\ runs' = [r \in 1..Len(runs) |->
                      IF r \in Running /\ room = "both"
                      THEN [runs[r] EXCEPT !.during = @ \cup {clock + 1}]
                      ELSE runs[r]]

\* an interceptor that queues mutations whatever the connectivity
Intercepted_Always(config, isOnline) == isMutation(config)

\* if (!navigator.onLine && isMutation)
Intercepted(config, isOnline) == ~isOnline /\ isMutation(config)

\* a test that takes every failed call for a connectivity error
isNetworkError_AnyFailure(status) == status # "2xx"

\* !error.response && error.message === 'Network Error'
isNetworkError(status) == status = "Network Error"

\* api.interceptors.request.use: a call of the UI through the api client.
\* The pages issue their calls while the application is mounted, the login
\* page issues the authApi calls.
RequestInterceptor(req, room) ==
    LET config == ConfigOf(req)
    IN  /\ IF req \in AuthRequests THEN ~mounted ELSE mounted
        /\ calls < MaxReq
        /\ calls' = calls + 1
        /\ IF Intercepted(config, online)
           THEN /\ QueueOffline(config, room)
                /\ Emit([kind |-> "call", method |-> req.method, network |-> FALSE,
                         result |-> "OfflineError",
                         toast |-> "Change saved offline - will sync when online"])
                /\ UNCHANGED inflight
           ELSE /\ Emit([kind |-> "call", method |-> req.method, network |-> TRUE,
                         result |-> "sent"])
                /\ inflight' = inflight \cup
                                 {[n |-> calls + 1,
                                   config |-> TransformRequest(config)]}
                /\ UNCHANGED <<queryCache, displayCache, queue, clock, runs>>
        /\ UNCHANGED <<online, token, apiAuth, mounted, isSyncing, perm, selectedAccount>>

\* api.interceptors.response.use: the call c in flight is answered with an
\* HTTP status, or fails with axios' 'Network Error' and no response.
ResponseInterceptor(c, status, room) ==
    /\ c \in inflight
    /\ IF status = "2xx"
       THEN /\ Emit([kind |-> "response", method |-> c.config.method,
                     status |-> status, network |-> TRUE, result |-> "response"])
            /\ inflight' = inflight \ {c}
            /\ UNCHANGED <<token, apiAuth, mounted, isSyncing, queue, displayCache,
                           queryCache, runs, clock>>
       ELSE IF status = "401" /\ ~isAuthRoute
       THEN \* clearAuthToken(); window.location.href = '/login': the document
            \* is replaced, and with it everything the page held in memory
            /\ Emit([kind |-> "response", method |-> c.config.method,
                     status |-> status, network |-> TRUE, result |-> "error"])
            /\ token' = NoToken
            /\ apiAuth' = NoToken
            /\ mounted' = FALSE
            /\ isSyncing' = FALSE
            /\ queryCache' = [k \in QueryKeys |-> Absent]
            /\ runs' = [r \in 1..Len(runs) |-> [runs[r] EXCEPT !.alive = FALSE]]
            /\ inflight' = {}
            /\ UNCHANGED <<queue, displayCache, clock>>
       ELSE IF status # "401" /\ isNetworkError(status) /\ isMutation(c.config)
       THEN /\ QueueOffline(c.config, room)
            /\ Emit([kind |-> "response", method |-> c.config.method,
                     status |-> status, network |-> TRUE, result |-> "OfflineError",
                     toast |-> "Change saved offline - will sync when online"])
            /\ inflight' = inflight \ {c}
            /\ UNCHANGED <<token, apiAuth, mounted, isSyncing>>
       ELSE /\ Emit([kind |-> "response", method |-> c.config.method,
                     status |-> status, network |-> TRUE, result |-> "error"])
            /\ inflight' = inflight \ {c}
            /\ UNCHANGED <<token, apiAuth, mounted, isSyncing, queue, displayCache,
                           queryCache, runs, clock>>
    /\ UNCHANGED <<online, calls, perm, selectedAccount>>

----------------------------------------------------------------------------
(* hooks/useOfflineSync.ts: the sync engine *)

\* The Authorization header of api.request(request.config) on the instance
\* axios.create({ headers: token ? { Authorization: `Bearer ${token}` } : {} }):
\* axios merges the request's own headers over the instance defaults, so a
\* header stored in request.config.headers takes precedence over the
\* instance's.
ReplayAuthorization(request, tok) ==
    IF request.config.headers.Authorization # NoToken
    THEN request.config.headers.Authorization
    ELSE tok

\* validateRequestContext(request): a warning for a workspace and for an
\* account that differ from the current ones (where both are known);
\* isValid is true in every case.
validateRequestContext(request, tok, account) ==
    [isValid |-> TRUE,
     warnings |->
        (IF /\ request.workspaceId # "undefined"
            /\ WorkspaceOf(tok) # "undefined"
            /\ request.workspaceId # WorkspaceOf(tok)
         THEN <<"workspace">> ELSE <<>>)
        \o (IF request.accountId # account THEN <<"account">> ELSE <<>>)]

\* a run that hands to the network only the entries of the current context
Replay_CurrentContextOnly(request, tok, account) ==
    LET validation == validateRequestContext(request, tok, account)
    IN  [id |-> IF validation.warnings = <<>> THEN request.id ELSE 0,
         Authorization |-> ReplayAuthorization(request, tok)]

\* One iteration up to its await: the warnings of validateRequestContext are
\* logged (console.warn, the warnings of the events), neither they nor
\* isValid are read again, and the replay request is handed to the network.
Replay(request, tok, account) ==
    LET validation == validateRequestContext(request, tok, account)
    IN  [id |-> request.id,
         Authorization |-> ReplayAuthorization(request, tok)]

\* replays sent through the api client, whose response interceptor queues a
\* mutation that fails without response
ReplayIntercepted_ApiClient(request, status) ==
    isNetworkError(status) /\ isMutation(request.config)

\* const api = axios.create({ baseURL, headers }): the replay goes through an
\* instance of its own, on which no interceptor is registered, so no end of
\* a replay is handled by the offline interceptors
ReplayIntercepted(request, status) == FALSE

\* a removal that cleans the in-memory cache and forgets the Display Cache
removeOptimisticItem_MemoryOnly(qc, dc, request) ==
    IF request.optimisticData # NoOpt
    THEN [qc |-> FilterQueries(qc, request.optimisticData.queryKey,
                               request.optimisticData.tempId),
          dc |-> dc]
    ELSE [qc |-> qc, dc |-> dc]

\* removeOptimisticItem, called when request.optimisticData is set
removeOptimisticItem(qc, dc, request) ==
    IF request.optimisticData # NoOpt
    THEN [qc |-> FilterQueries(qc, request.optimisticData.queryKey,
                               request.optimisticData.tempId),
          dc |-> removeItem(dc, request.optimisticData.tempId)]
    ELSE [qc |-> qc, dc |-> dc]

\* a tally that counts a failed replay as processed
Tally_FailureAsProcessed(run, request, status) ==
    [run EXCEPT !.processed = @ + 1]

\* processed++ in the try branch; errors.push and failed++ in the catch
\* branch, which api.request enters for every status outside 2xx and for a
\* request without response
Tally(run, request, status) ==
    [run EXCEPT
        !.processed = IF status = "2xx" THEN @ + 1 ELSE @,
        !.failed = IF status = "2xx" THEN @ ELSE @ + 1,
        !.errors = IF status = "2xx" THEN @
                   ELSE Append(@, <<"Failed:", request.description>>)]

\* an entry that does not look at the connectivity
Entry_IgnoresOffline(q, isOnline) ==
    IF Len(q) = 0 THEN "empty" ELSE "run"

\* The two early returns of syncQueue: on an empty queue, then on
\* !isOnline; otherwise a run starts.
Entry(q, isOnline) ==
    IF Len(q) = 0 THEN "empty"
    ELSE IF ~isOnline THEN "offline"
    ELSE "run"

\* a loop that stops at the first failed replay
LoopContinues_UntilFailure(run, status) ==
    run.i < Len(run.queue) /\ status = "2xx"

\* for (let i = 0; i < queue.length; i++): the try/catch inside the loop
\* body lets no failure leave the loop
LoopContinues(run, status) == run.i < Len(run.queue)

\* a run that refreshes the cached query data only when no replay failed
Invalidate_OnlyOnSuccess(run) ==
    [run EXCEPT !.pc = "invalidate",
                !.invalidated = IF run.failed = 0 THEN @ + 1 ELSE @]

\* await queryClient.invalidateQueries(), after the loop: every cached query
\* is marked stale whatever the replays gave (the refetch of the queries on
\* screen is FetchQueries)
Invalidate(run) ==
    [run EXCEPT !.pc = "invalidate", !.invalidated = @ + 1]

\* syncQueue(), from its entry to its first suspension: the two early
\* returns, or the start of a run up to the await of the first replay.
syncQueue ==
    /\ mounted
    /\ IF Entry(queue, online) = "empty"
       THEN /\ Emit([kind |-> "sync", returned |-> Result(TRUE, 0, 0)])
            /\ UNCHANGED <<isSyncing, runs>>
       ELSE IF Entry(queue, online) = "offline"
       THEN /\ Emit([kind |-> "sync", returned |-> Result(FALSE, 0, 0),
                     toast |-> "Cannot sync while offline"])
            /\ UNCHANGED <<isSyncing, runs>>
       ELSE /\ Len(runs) < MaxRuns
            /\ isSyncing' = TRUE
            /\ runs' = Append(runs, [queue |-> queue, i |-> 1, pc |-> "replay",
                                     processed |-> 0, failed |-> 0, errors |-> <<>>,
                                     hookMounted |-> TRUE, during |-> {},
                                     invalidated |-> 0,
                                     sent |-> <<Replay(queue[1], token,
                                                       selectedAccount)>>,
                                     removals |-> <<>>,
                                     alive |-> TRUE, result |-> Pending])
            /\ Emit([kind |-> "sync",
                     warnings |-> validateRequestContext(queue[1], token,
                                                         selectedAccount).warnings])
    /\ UNCHANGED <<online, token, apiAuth, mounted, queue, displayCache,
                   queryCache, clock, calls, inflight, perm, selectedAccount>>

\* The awaited api.request of run r settles with an HTTP status or without
\* response: the rest of the loop body, then either the next iteration up to
\* its await or the call of queryClient.invalidateQueries(). The instance
\* of axios.create has no interceptors.
ReplaySettles(r, status) ==
    /\ r \in 1..Len(runs)
    /\ runs[r].pc = "replay"
    /\ runs[r].alive
    /\ LET run == runs[r]
           request == run.queue[run.i]
           rem == removeOptimisticItem(queryCache, displayCache, request)
           counted == [Tally(run, request, status) EXCEPT
                          !.removals = IF request.optimisticData # NoOpt
                                       THEN Append(@, request.optimisticData.tempId)
                                       ELSE @]
       IN  /\ queryCache' = rem.qc
           /\ displayCache' = rem.dc
           /\ IF ReplayIntercepted(request, status)
              THEN /\ queue' = removeFromQueue(
                                   addToQueue(queue, clock + 1, request.config,
                                              Description(request.config), NoOpt,
                                              getOfflineContext(token, selectedAccount),
                                              TRUE),
                                   request.id)
                   /\ clock' = clock + 1
              ELSE /\ queue' = removeFromQueue(queue, request.id)
                   /\ clock' = clock
           /\ IF LoopContinues(run, status)
              THEN runs' = [runs EXCEPT ![r] =
                             [counted EXCEPT
                                !.i = @ + 1,
                                !.sent = Append(@, Replay(run.queue[run.i + 1],
                                                          token, selectedAccount))]]
              ELSE runs' = [runs EXCEPT ![r] = Invalidate(counted)]
    /\ Emit([kind |-> "replay", status |-> status, network |-> TRUE,
             warnings |->
                IF LoopContinues(runs[r], status)
                THEN validateRequestContext(runs[r].queue[runs[r].i + 1], token,
                                            selectedAccount).warnings
                ELSE <<>>])
    /\ UNCHANGED <<online, token, apiAuth, mounted, isSyncing, calls,
                   inflight, perm, selectedAccount>>

\* The awaited invalidateQueries of run r resolves: setIsSyncing(false),
\* setSyncErrors, the aggregate toast and the return.
RunReturns(r) ==
    /\ r \in 1..Len(runs)
    /\ runs[r].pc = "invalidate"
    /\ runs[r].alive
    /\ runs' = [runs EXCEPT ![r] =
                  [@ EXCEPT !.pc = "done",
                            !.result = Result(runs[r].failed = 0, runs[r].processed,
                                              runs[r].failed)]]
    /\ isSyncing' = IF runs[r].hookMounted THEN FALSE ELSE isSyncing
    /\ Emit([kind |-> "return",
             returned |-> Result(runs[r].failed = 0, runs[r].processed,
                                 runs[r].failed),
             toast |-> IF runs[r].failed = 0 THEN "Successfully synced"
                       ELSE "Synced with failures"])
    /\ UNCHANGED <<online, token, apiAuth, mounted, queue, displayCache,
                   queryCache, clock, calls, inflight, perm, selectedAccount>>

\* The members page renders a member's row: both checks are made
MemberRow ==
    /\ ~perm.asked
    /\ "user" \in DOMAIN perm
    /\ perm' = [perm EXCEPT
                  !.asked = TRUE,
                  !.canEdit = canEditMember(perm.user, perm.role, perm.member),
                  !.canReset = canResetPasswordFor(perm.user, perm.role, perm.member)]
    /\ UNCHANGED <<online, token, apiAuth, mounted, isSyncing, queue, displayCache,
                   queryCache, runs, clock, calls, inflight, last,
                   selectedAccount>>

----------------------------------------------------------------------------

Next ==
    \/ GoOffline
    \/ GoOnline
    \/ FetchQueries
    \/ logout
    \/ \E t \in Tokens : login(t)
    \/ \E req \in SyncRequests, room \in Rooms : RequestInterceptor(req, room)
    \/ \E c \in inflight : ResponseInterceptor(c, "2xx", "both")
    \/ syncQueue
    \/ \E r \in 1..MaxRuns, status \in ReplayStatuses : ReplaySettles(r, status)
    \/ \E r \in 1..MaxRuns : RunReturns(r)

Spec == Init /\ [][Next]_vars

\* The same program within one session, the UI issuing every kind of call.
NextInterceptor ==
    \/ GoOffline
    \/ GoOnline
    \/ FetchQueries
    \/ \E req \in Requests, room \in Rooms : RequestInterceptor(req, room)
    \/ \E c \in inflight : ResponseInterceptor(c, "2xx", "both")
    \/ syncQueue
    \/ \E r \in 1..MaxRuns, status \in ReplayStatuses : ReplaySettles(r, status)
    \/ \E r \in 1..MaxRuns : RunReturns(r)

SpecInterceptor == Init /\ [][NextInterceptor]_vars

\* The same program with every end a call and a replay can have, the next
\* session being that of another user.
NextResponse ==
    \/ GoOffline
    \/ GoOnline
    \/ logout
    \/ login("t2")
    \/ \E req \in ResponseRequests, room \in Rooms : RequestInterceptor(req, room)
    \/ \E c \in inflight, status \in Statuses, room \in Rooms :
          ResponseInterceptor(c, status, room)
    \/ syncQueue
    \/ \E r \in 1..MaxRuns, status \in ReplayStatuses : ReplaySettles(r, status)
    \/ \E r \in 1..MaxRuns : RunReturns(r)

SpecResponse == Init /\ [][NextResponse]_vars

\* The optimistic applier on every kind of path, called by either
\* interceptor.
NextApplier ==
    \/ GoOffline
    \/ GoOnline
    \/ \E req \in ApplierRequests, room \in Rooms : RequestInterceptor(req, room)
    \/ \E c \in inflight, status \in {"2xx", "Network Error"}, room \in Rooms :
          ResponseInterceptor(c, status, room)

SpecApplier == Init /\ [][NextApplier]_vars

\* The calls issued where the context of the queued entries is examined
ContextRequests ==
    {req \in Requests :
        \/ req.method = "post" /\ req.url = TxUrl /\ req.budget_period_id = "p7"
        \/ req.method = "put"}

\* The sync engine across sessions and selected accounts, the writes of the
\* two stores succeeding.
NextContext ==
    \/ GoOffline
    \/ GoOnline
    \/ logout
    \/ login("t2")
    \/ \E a \in Accounts : SelectAccount(a)
    \/ \E req \in ContextRequests : RequestInterceptor(req, "both")
    \/ syncQueue
    \/ \E r \in 1..MaxRuns, status \in ReplayStatuses : ReplaySettles(r, status)
    \/ \E r \in 1..MaxRuns : RunReturns(r)

SpecContext == Init /\ [][NextContext]_vars

\* The permission checks of the members page
SpecPermissions == InitPermissions /\ [][MemberRow]_vars

\* The sync engine within the life of one page, where every awaited promise
\* settles: api.request of a run (axios resolves or rejects it) and
\* invalidateQueries.
NextLive ==
    \/ GoOffline
    \/ GoOnline
    \/ logout
    \/ login("t2")
    \/ \E req \in SyncRequests, room \in Rooms : RequestInterceptor(req, room)
    \/ syncQueue
    \/ \E r \in 1..MaxRuns, status \in ReplayStatuses : ReplaySettles(r, status)
    \/ \E r \in 1..MaxRuns : RunReturns(r)

SpecLive ==
    /\ Init
    /\ [][NextLive]_vars
    /\ \A r \in 1..MaxRuns :
          /\ WF_vars(\E status \in ReplayStatuses : ReplaySettles(r, status))
          /\ WF_vars(RunReturns(r))

----------------------------------------------------------------------------
(* Properties *)

Last(q) == q[Len(q)]

\* the replay requests run r handed to the network, in order
SentBy(r) == runs[r].sent

\* the replay requests of all runs, as <<run, position>>
AllSent == {<<r, j>> \in (1..Len(runs)) \X (1..MaxReq) : j <= Len(runs[r].sent)}

\* the number of snapshot entries of a run whose outcome is known
Settled(run) == run.processed + run.failed

\* a placeholder with temporary id t is in some entry of the in-memory cache qc
InMemory(qc, t) ==
    \E k \in QueryKeys :
        /\ qc[k].exists
        /\ \E j \in 1..Len(qc[k].data) : qc[k].data[j]._tempId = t

\* a placeholder with temporary id t is in the Display Cache dc
InDisplay(dc, t) == \E j \in 1..Len(dc) : dc[j].tempId = t

\* this step is a call through the api client
IsCall == calls' # calls

\* this step is a mutation issued while connectivity is reported as down
OfflineMutation ==
    /\ IsCall
    /\ ~online
    /\ last'.method \in {"post", "put", "delete"}

\* C1: each QueuedRequest is replayed against the network at most once,
\* under any interleaving of enqueues and trigger-sync calls.
C1_ReplayedAtMostOnce ==
    \A a, b \in AllSent :
        a # b => runs[a[1]].sent[a[2]].id # runs[b[1]].sent[b[2]].id

\* C2: while a sync run is Running a further call of trigger-sync starts no
\* second run, so at most one run is in progress at any time.
C2_NoSecondRun ==
    [][/\ (Running # {} => Len(runs') = Len(runs))
       /\ Cardinality(Running') <= 1]_vars

C4_FifoOneAtATime ==
    \A r \in 1..Len(runs) :
        LET run == runs[r]
            mine == SentBy(r)
        IN  /\ Len(mine) = IF run.pc = "replay" THEN Settled(run) + 1
                           ELSE Settled(run)
            /\ run.pc # "replay" => Settled(run) = Len(run.queue)
            /\ \A j \in 1..Len(mine) : mine[j].id = run.queue[j].id
            /\ \A j \in 1..(Len(run.queue) - 1) :
                  run.queue[j].id < run.queue[j + 1].id

\* a run whose first replay failed and whose second request is in flight
C4_Witness ==
    \E r \in 1..Len(runs) :
        /\ runs[r].pc = "replay"
        /\ runs[r].failed = 1
        /\ Len(SentBy(r)) = 2

\* C5: when connectivity is reported as down, a POST, PUT or DELETE is
\* intercepted before it reaches the network: exactly one entry is appended
\* to the Queue Store, no network call is issued, a success-styled
\* notification is shown and the caller gets the OfflineError.
C5_OfflineInterception ==
    [][OfflineMutation =>
          /\ Len(queue') = Len(queue) + 1
          /\ SubSeq(queue', 1, Len(queue)) = queue
          /\ Last(queue').config.method = last'.method
          /\ last'.network = FALSE
          /\ last'.toast = "Change saved offline - will sync when online"
          /\ last'.result = "OfflineError"]_vars

\* the entity type of the Display Cache enumeration for each family
EntityTypeOf(family) ==
    CASE family = "transactions" -> "transaction"
      [] family = "planned-transactions" -> "planned-transaction"
      [] family = "currency-exchanges" -> "currency-exchange"
      [] family = "categories" -> "category"
      [] family = "budget-periods" -> "budget-period"

\* C6: after a successful optimistic application the placeholder is in the
\* in-memory query cache and in the Display Cache as soon as its request is
\* enqueued, and in neither once the sync outcome of that request has been
\* processed.
C6_PlaceholderLifecycle ==
    [][/\ ((/\ OfflineMutation
             /\ Len(queue') > Len(queue)
             /\ Last(queue').optimisticData # NoOpt) =>
            /\ InMemory(queryCache', Last(queue').optimisticData.tempId)
            /\ InDisplay(displayCache', Last(queue').optimisticData.tempId))
       /\ \A r \in 1..Len(runs) :
            (runs[r].pc = "replay" /\ Settled(runs'[r]) > Settled(runs[r])
             /\ runs[r].queue[runs[r].i].optimisticData # NoOpt) =>
                /\ ~InMemory(queryCache',
                             runs[r].queue[runs[r].i].optimisticData.tempId)
                /\ ~InDisplay(displayCache',
                              runs[r].queue[runs[r].i].optimisticData.tempId)]_vars

\* C7: a POST issued offline to a path of any of the five recognised
\* families adds exactly one Display Cache item, stored under that family's
\* entity type.
C7_FiveFamiliesPersisted ==
    [][(/\ OfflineMutation
        /\ last'.method = "post"
        /\ Len(queue') > Len(queue)
        /\ Family(Last(queue').config.url) # "none") =>
          /\ Len(displayCache') = Len(displayCache) + 1
          /\ SubSeq(displayCache', 1, Len(displayCache)) = displayCache
          /\ Last(displayCache').entityType
                = EntityTypeOf(Family(Last(queue').config.url))]_vars

\* C8: every replay request is sent with the bearer credential of the
\* session current at replay time, never with the one captured at enqueue.
C8_CurrentCredential ==
    [][\A r \in 1..Len(runs') :
          (IF r > Len(runs) THEN TRUE ELSE Len(runs'[r].sent) > Len(runs[r].sent))
              => Last(runs'[r].sent).Authorization = token]_vars

\* C9: an entry enqueued while a run is in progress is not replayed by that
\* run and is still in the Queue Store when the run completes.
C9_EnqueuedDuringRunSurvives ==
    [][\A r \in 1..Len(runs) :
          (runs[r].pc # "done" /\ runs'[r].pc = "done") =>
              \A id \in runs[r].during :
                  /\ id \in {queue'[j].id : j \in 1..Len(queue')}
                  /\ \A j \in 1..Len(runs'[r].sent) : runs'[r].sent[j].id # id]_vars

\* the live queue entries that reference a Display Cache item
Referrers(item) ==
    {j \in 1..Len(queue) : queue[j].optimisticData.tempId = item.tempId}

\* C10: each Display Cache item is referenced by at most one entry of the
\* Queue Store and none remains once its originating request has left the
\* Queue Store: every item has exactly one live referrer.
C10_DisplayItemHasLiveRequest ==
    \A d \in 1..Len(displayCache) : Cardinality(Referrers(displayCache[d])) = 1

\* this step ends the replay request run r was awaiting
ReplayEnded(r) ==
    /\ runs[r].pc = "replay"
    /\ runs'[r].i # runs[r].i \/ runs'[r].pc # "replay"

\* the entry whose replay request run r is awaiting
Current(r) == runs[r].queue[runs[r].i]

\* this step is a call of syncQueue
IsSync == last'.kind = "sync" /\ (last' # last \/ Len(runs') > Len(runs))

\* this step is the response interceptor handling the end of a call
IsResponse == inflight' # inflight

\* C11: a run that reaches the replay loop returns {success, processed,
\* failed}: processed counts the snapshot entries whose replay succeeded,
\* failed those whose replay failed, together they are the snapshot size,
\* success holds exactly when failed = 0, and one failure message built from
\* the entry's description is recorded per failed entry.
C11_ResultCounts ==
    [][/\ Len(runs') > Len(runs) =>
            /\ Last(runs').processed = 0
            /\ Last(runs').failed = 0
            /\ Last(runs').errors = <<>>
       /\ \A r \in 1..Len(runs) :
            /\ ReplayEnded(r) =>
                 LET ok == last'.status = "2xx"
                 IN  /\ last'.kind = "replay"
                     /\ runs'[r].processed = runs[r].processed + (IF ok THEN 1 ELSE 0)
                     /\ runs'[r].failed = runs[r].failed + (IF ok THEN 0 ELSE 1)
                     /\ runs'[r].errors =
                          IF ok THEN runs[r].errors
                          ELSE Append(runs[r].errors,
                                      <<"Failed:", Current(r).description>>)
            /\ ~ReplayEnded(r) =>
                 /\ runs'[r].processed = runs[r].processed
                 /\ runs'[r].failed = runs[r].failed
                 /\ runs'[r].errors = runs[r].errors
            /\ (runs[r].pc # "done" /\ runs'[r].pc = "done") =>
                 /\ last'.kind = "return"
                 /\ last'.returned = runs'[r].result
                 /\ runs'[r].result.processed = runs[r].processed
                 /\ runs'[r].result.failed = runs[r].failed
                 /\ runs'[r].result.success = (runs[r].failed = 0)
                 /\ runs[r].processed + runs[r].failed = Len(runs[r].queue)
                 /\ Len(runs[r].errors) = runs[r].failed]_vars

\* a run of two entries has returned {success: false, processed: 1, failed: 1}
C11_Witness ==
    \E r \in 1..Len(runs) :
        /\ runs[r].result = Result(FALSE, 1, 1)
        /\ Len(runs[r].errors) = 1
        /\ Len(runs[r].queue) = 2

\* C12: trigger-sync with a non-empty queue while connectivity is
\* unavailable aborts back to Idle: no replay request is issued, the Queue
\* Store, the Display Cache and the in-memory cache are unchanged, the user
\* is notified that sync cannot proceed offline and the result reports
\* nothing processed.
C12_OfflineAbort ==
    [][(IsSync /\ ~online /\ Len(queue) > 0) =>
          /\ last'.returned = Result(FALSE, 0, 0)
          /\ last'.toast = "Cannot sync while offline"
          /\ UNCHANGED <<queue, displayCache, queryCache, runs, isSyncing>>]_vars

\* syncQueue was called offline with two entries queued, which are still there
C12_Witness ==
    /\ last.kind = "sync"
    /\ last.toast = "Cannot sync while offline"
    /\ ~online
    /\ Len(queue) = 2

\* C13: when a POST, PUT or DELETE believed online fails with a connectivity
\* error (no HTTP response), the response interceptor runs the sequence of
\* the pre-flight check: exactly one entry is enqueued, the success
\* notification is shown and the caller gets the OfflineError instead of the
\* network error.
C13_QueuedAfterTheFact ==
    [][(/\ IsResponse
        /\ last'.status = "Network Error"
        /\ last'.method \in {"post", "put", "delete"}) =>
          /\ Len(queue') = Len(queue) + 1
          /\ SubSeq(queue', 1, Len(queue)) = queue
          /\ Last(queue').config.method = last'.method
          /\ last'.toast = "Change saved offline - will sync when online"
          /\ last'.result = "OfflineError"]_vars

\* C14: when connectivity is reported as up a request goes directly to the
\* network and does not change the Queue Store, unless the call itself
\* fails with a connectivity error.
C14_OnlinePassthrough ==
    [][/\ (IsCall /\ online) =>
            /\ last'.network
            /\ last'.result = "sent"
            /\ queue' = queue
       /\ (IsResponse /\ queue' # queue) => last'.status = "Network Error"]_vars

\* a DELETE issued online went to the network past an entry queued earlier
C14_Witness ==
    /\ last.kind = "call"
    /\ last.method = "delete"
    /\ last.network
    /\ online
    /\ Len(queue) = 1

\* C15: for every request the application issues, through the api client or
\* as a sync replay, a 401 response received off the unauthenticated routes
\* clears the stored credential and navigates to the login boundary without
\* changing the Queue Store; on an unauthenticated route the credential is
\* kept and no navigation happens.
C15_UnauthorizedTeardown ==
    [][/\ (IsResponse /\ last'.status = "401") =>
            IF ~isAuthRoute
            THEN token' = NoToken /\ ~mounted' /\ queue' = queue
            ELSE token' = token /\ mounted' = mounted
       /\ \A r \in 1..Len(runs) :
            (ReplayEnded(r) /\ last'.status = "401") =>
                IF ~isAuthRoute
                THEN token' = NoToken /\ ~mounted'
                ELSE token' = token /\ mounted' = mounted]_vars

\* C17: a response with a non-2xx status other than 401 is passed to the
\* caller unmodified and leaves the Queue Store, the Display Cache and the
\* in-memory cache unchanged, for every method.
C17_OtherErrorsPassThrough ==
    [][(IsResponse /\ last'.status = "500") =>
          /\ last'.result = "error"
          /\ last'.toast = "none"
          /\ UNCHANGED <<queue, displayCache, queryCache, token, mounted>>]_vars

\* a DELETE was answered with status 500 while an entry was queued
C17_Witness ==
    /\ last.kind = "response"
    /\ last.status = "500"
    /\ last.method = "delete"
    /\ Len(queue) = 1

\* C16: enqueue never rejects: when the storage write fails the error is
\* swallowed, enqueue returns the new id and raises nothing (the interceptor
\* goes on to its OfflineError), and the entry stays available to list().
C16_EnqueueKeepsEntry ==
    [][clock' # clock =>
          /\ last'.result = "OfflineError"
          /\ clock' \in {queue'[j].id : j \in 1..Len(queue')}]_vars

\* C18: canEditMember and canResetPasswordFor are true exactly when the
\* target is not the current user, the target is not owner, and the current
\* user is owner, or admin with a member or viewer as target; for a current
\* user with role member, viewer or none they are false for every target.
C18_MemberPermissions ==
    perm.asked =>
        LET allowed ==
                /\ perm.member.user_id # perm.user
                /\ perm.member.role # "owner"
                /\ \/ perm.role = "owner"
                   \/ perm.role = "admin" /\ perm.member.role \in {"member", "viewer"}
        IN  /\ perm.canEdit = allowed
            /\ perm.canReset = allowed
            /\ perm.role \in {"member", "viewer", "none"} =>
                  ~perm.canEdit /\ ~perm.canReset

\* an admin was refused the edit of another admin
C18_Witness ==
    /\ perm.asked
    /\ perm.role = "admin"
    /\ perm.member.role = "admin"
    /\ perm.member.user_id # perm.user
    /\ ~perm.canEdit

IsEnqueue == clock' # clock

\* the ids of the entries whose replay request ends in this step
EndedIds == {Current(r).id : r \in {x \in 1..Len(runs) : ReplayEnded(x)}}

\* C21: the Queue Store operations keep the other entries intact: enqueue
\* appends the new entry at the end, with an id no stored entry has, and
\* leaves the stored entries and their order as they were; removeById takes
\* out the entry with that id only, keeps the order of the rest and changes
\* nothing when the id is not stored; nothing else changes the Queue Store.
C21_StoreFrame ==
    [][/\ IsEnqueue =>
            /\ Len(queue') = Len(queue) + 1
            /\ SubSeq(queue', 1, Len(queue)) = queue
            /\ Last(queue').id \notin QueueIds
       /\ EndedIds # {} =>
            /\ queue' = SelectSeq(queue, LAMBDA e : e.id \notin EndedIds)
            /\ EndedIds \cap QueueIds = {} => queue' = queue
       /\ (~IsEnqueue /\ EndedIds = {}) => queue' = queue]_vars

\* C22: in every run that reaches the replay loop all cached query data is
\* invalidated exactly once: in the step that processes the outcome of the
\* last snapshot entry, before the run returns and reports its result,
\* whether or not a replay failed.
C22_InvalidatedOnce ==
    [][\A r \in 1..Len(runs') :
          LET before == IF r <= Len(runs) THEN runs[r].invalidated ELSE 0
          IN  /\ runs'[r].invalidated # before =>
                    /\ r <= Len(runs)
                    /\ ReplayEnded(r)
                    /\ runs'[r].invalidated = before + 1
                    /\ Settled(runs'[r]) = Len(runs'[r].queue)
                    /\ runs'[r].pc = "invalidate"
              /\ runs'[r].pc = "replay" => runs'[r].invalidated = 0
              /\ runs'[r].pc \in {"invalidate", "done"} => runs'[r].invalidated = 1
              /\ (r <= Len(runs) /\ runs[r].pc # "done" /\ runs'[r].pc = "done") =>
                    /\ runs[r].pc = "invalidate"
                    /\ last'.kind = "return"]_vars

\* a run of two entries, both failed, has invalidated the queries and returned
C22_Witness ==
    \E r \in 1..Len(runs) :
        /\ runs[r].pc = "done"
        /\ runs[r].invalidated = 1
        /\ runs[r].failed = 2
        /\ runs[r].processed = 0

\* C23: a request whose method is not POST, PUT or DELETE passes through
\* unconditionally: issued while connectivity is down it still goes to the
\* network, and failing with a connectivity error it is handed to the caller
\* as it is; in both cases nothing is enqueued and no placeholder is made.
C23_OtherMethodsPassThrough ==
    [][/\ (IsCall /\ last'.method \notin {"post", "put", "delete"}) =>
            /\ last'.network
            /\ last'.result = "sent"
            /\ UNCHANGED <<queue, displayCache, queryCache, clock>>
       /\ (/\ IsResponse
           /\ last'.method \notin {"post", "put", "delete"}
           /\ last'.status = "Network Error") =>
            /\ last'.result = "error"
            /\ last'.toast = "none"
            /\ UNCHANGED <<queue, displayCache, queryCache, clock>>
       /\ \A j \in 1..Len(queue') :
            queue'[j].config.method \in {"post", "put", "delete"}]_vars

\* a PATCH failed with a connectivity error while connectivity was down and
\* the Queue Store stayed empty
C23_Witness ==
    /\ last.kind = "response"
    /\ last.method = "patch"
    /\ last.status = "Network Error"
    /\ ~online
    /\ queue = <<>>

\* C24: for a request whose method is not POST the optimistic applier
\* returns null and changes neither the in-memory cache nor the Display
\* Cache: a PUT or DELETE queued offline is stored without optimisticData,
\* and the outcome of its replay triggers no placeholder removal.
C24_NonPostNoPlaceholder ==
    [][/\ (IsEnqueue /\ last'.method # "post") =>
            /\ UNCHANGED <<queryCache, displayCache>>
            /\ Len(queue') > Len(queue) => Last(queue').optimisticData = NoOpt
       /\ \A r \in 1..Len(runs) :
            (ReplayEnded(r) /\ Current(r).config.method # "post") =>
                /\ Current(r).optimisticData = NoOpt
                /\ runs'[r].removals = runs[r].removals
                /\ UNCHANGED <<queryCache, displayCache>>]_vars

\* a run has replayed a DELETE that was queued offline and removed no
\* placeholder
C24_Witness ==
    \E r \in 1..Len(runs) :
        /\ runs[r].pc = "done"
        /\ runs[r].queue[1].config.method = "delete"
        /\ runs[r].processed = 1
        /\ runs[r].removals = <<>>

\* the families in the order of their tests, and the test of each
FamilyOrder == <<"transactions", "planned-transactions", "currency-exchanges",
                 "categories", "budget-periods">>

PathMatches(f, url) ==
    CASE f = "transactions" ->
            Includes(url, <<"/", "transactions">>) /\ ~Includes(url, <<"planned">>)
      [] f = "planned-transactions" -> Includes(url, <<"/", "planned", "-", "transactions">>)
      [] f = "currency-exchanges" -> Includes(url, <<"/", "currency", "-", "exchanges">>)
      [] f = "categories" -> Includes(url, <<"/", "categories">>)
      [] f = "budget-periods" -> Includes(url, <<"/", "budget", "-", "periods">>)

\* the first family in the order whose test the path passes
FirstMatch(url) ==
    LET hits == {i \in 1..Len(FamilyOrder) : PathMatches(FamilyOrder[i], url)}
    IN  IF hits = {} THEN "none"
        ELSE FamilyOrder[CHOOSE i \in hits : \A j \in hits : i <= j]

\* C25: for a POST the applier picks the family by ordered first match over
\* the path and returns the lookup key and temporary id of that family,
\* its placeholder going to cache entries and a Display Cache item of that
\* family only; a POST whose path matches no family returns null and changes
\* neither the in-memory cache nor the Display Cache.
C25_FamilyByFirstMatch ==
    [][(IsEnqueue /\ last'.method = "post" /\ Len(queue') > Len(queue)) =>
          LET e == Last(queue')
              fam == FirstMatch(e.config.url)
          IN  IF fam = "none"
              THEN /\ e.optimisticData = NoOpt
                   /\ UNCHANGED <<queryCache, displayCache>>
              ELSE /\ e.optimisticData.tempId = clock'
                   /\ e.optimisticData.queryKey =
                        IF fam \in {"categories", "budget-periods"}
                        THEN <<fam>>
                        ELSE <<fam, e.config.data.budget_period_id>>
                   /\ \A k \in QueryKeys :
                        queryCache'[k] # queryCache[k] =>
                            /\ k[1] = fam
                            /\ Len(queryCache'[k].data) = Len(queryCache[k].data) + 1
                            /\ queryCache'[k].data[1]._tempId = clock'
                            /\ SubSeq(queryCache'[k].data, 2, Len(queryCache'[k].data))
                                  = queryCache[k].data
                   /\ displayCache' # displayCache =>
                        /\ Len(displayCache') = Len(displayCache) + 1
                        /\ SubSeq(displayCache', 1, Len(displayCache)) = displayCache
                        /\ Last(displayCache').tempId = clock'
                        /\ Last(displayCache').entityType = EntityTypeOf(fam)]_vars

\* a POST to a path of no family was queued without placeholder, then a POST
\* to a path that names categories and transactions got the transactions key
C25_Witness ==
    /\ Len(queue) = 2
    /\ queue[1].config.url = BudgetUrl
    /\ queue[1].optimisticData = NoOpt
    /\ queue[2].config.url = <<"/", "categories", "/", "5", "/", "transactions">>
    /\ queue[2].optimisticData.queryKey = <<"transactions", "p7">>
    /\ Len(displayCache) = 1

\* the budget periods of the model, and the families whose placeholders are
\* scoped by period
Periods == {"p7", "p8"}
PeriodFamilies == {"transactions", "planned-transactions", "currency-exchanges"}

\* C26: a placeholder made for a transaction, planned transaction or
\* currency exchange with budget_period_id = P is prepended only to cache
\* entries keyed by that resource and period P, and a Display Cache lookup
\* for another period never returns it.
C26_NoLeakAcrossPeriods ==
    [][/\ (/\ IsEnqueue
           /\ last'.method = "post"
           /\ Len(queue') > Len(queue)
           /\ Family(Last(queue').config.url) \in PeriodFamilies
           /\ Last(queue').config.data.budget_period_id \in Periods) =>
            \A k \in QueryKeys :
                queryCache'[k] # queryCache[k] =>
                    /\ k[1] = Family(Last(queue').config.url)
                    /\ \E i \in 2..Len(k) :
                          k[i] = Last(queue').config.data.budget_period_id
       /\ \A Q \in Periods, d \in 1..Len(displayCache') :
            LET item == displayCache'[d]
                found == getItemsByType(displayCache', item.entityType, Q)
            IN  item.data.budget_period_id # Q =>
                    \A j \in 1..Len(found) : found[j]._tempId # item.tempId]_vars

\* placeholders of transactions of both periods are on screen and persisted
C26_Witness ==
    /\ Len(displayCache) = 2
    /\ displayCache[1].budgetPeriodId # displayCache[2].budgetPeriodId
    /\ Len(queryCache[<<"transactions", "p7", "filters">>].data) = 2
    /\ Len(queryCache[<<"transactions", "p8", "filters">>].data) = 2

\* the entry was captured in a workspace or under an account other than the
\* current ones
Foreign(e) == validateRequestContext(e, token, selectedAccount).warnings # <<>>

\* C27: a queued entry whose captured workspaceId or accountId differs from
\* the current context is replayed, reconciled and dequeued like an entry
\* whose context matches: the mismatch is logged as a warning and neither
\* withholds nor alters the replay request, and the outcome of the replay is
\* processed as for any entry.
C27_ContextNeverBlocks ==
    [][/\ \A r \in 1..Len(runs') :
            (IF r > Len(runs) THEN TRUE
             ELSE Len(runs'[r].sent) > Len(runs[r].sent)) =>
                LET e == runs'[r].queue[Len(runs'[r].sent)]
                IN  /\ last'.warnings =
                          validateRequestContext(e, token, selectedAccount).warnings
                    /\ Last(runs'[r].sent).id = e.id
                    /\ Last(runs'[r].sent).Authorization = ReplayAuthorization(e, token)
       /\ \A r \in 1..Len(runs) :
            (ReplayEnded(r) /\ Foreign(Current(r))) =>
                LET ok == last'.status = "2xx"
                    opt == Current(r).optimisticData
                IN  /\ queue' = SelectSeq(queue, LAMBDA x : x.id # Current(r).id)
                    /\ opt # NoOpt =>
                          /\ ~InMemory(queryCache', opt.tempId)
                          /\ ~InDisplay(displayCache', opt.tempId)
                    /\ runs'[r].processed = runs[r].processed + (IF ok THEN 1 ELSE 0)
                    /\ runs'[r].failed = runs[r].failed + (IF ok THEN 0 ELSE 1)]_vars

\* in the session of another workspace and under another account, a run has
\* replayed its first entry with success and warned about its second
C27_Witness ==
    \E r \in 1..Len(runs) :
        /\ runs[r].pc = "replay"
        /\ runs[r].i = 2
        /\ runs[r].processed = 1
        /\ runs[r].queue[1].workspaceId = "w1"
        /\ runs[r].queue[1].accountId # selectedAccount
        /\ token = "t2"
        /\ last.kind = "replay"
        /\ last.warnings = <<"workspace", "account">>

\* C28: a sync run never adds an entry to the Queue Store: a replay that
\* fails with a connectivity error is not queued again (the replays go
\* through an HTTP client instance of their own), so no step of a run makes
\* the queue longer or generates an id.
C28_RunNeverEnqueues ==
    [][/\ \A r \in 1..Len(runs) :
            ReplayEnded(r) =>
                /\ Len(queue') <= Len(queue)
                /\ {queue'[j].id : j \in 1..Len(queue')} \subseteq QueueIds
                /\ clock' = clock
       /\ (\/ Len(runs') > Len(runs)
           \/ \E r \in 1..Len(runs) : runs[r].pc # "done" /\ runs'[r].pc = "done") =>
            /\ queue' = queue
            /\ clock' = clock]_vars

\* the replay of the only entry, a POST, failed without response while
\* connectivity was down, and the Queue Store is empty
C28_Witness ==
    /\ last.kind = "replay"
    /\ last.status = "Network Error"
    /\ ~online
    /\ queue = <<>>
    /\ \E r \in 1..Len(runs) :
          /\ runs[r].failed = 1
          /\ runs[r].queue[1].config.method = "post"

\* this step ends the session: logout, or the teardown after a 401
IsTeardown == mounted /\ ~mounted'

\* C29: session teardown leaves the offline stores untouched: logout and the
\* 401 teardown change neither the Queue Store nor the Display Cache, so the
\* entries queued in one session are in the snapshot of the next run, which
\* replays them under the session current at that time.
C29_TeardownKeepsStores ==
    [][/\ IsTeardown =>
            /\ token' = NoToken
            /\ UNCHANGED <<queue, displayCache>>
       /\ \A r \in 1..Len(runs') :
            /\ r > Len(runs) => runs'[r].queue = queue
            /\ (IF r > Len(runs) THEN TRUE
                ELSE Len(runs'[r].sent) > Len(runs[r].sent)) =>
                  /\ Last(runs'[r].sent).id = runs'[r].queue[Len(runs'[r].sent)].id
                  /\ Last(runs'[r].sent).Authorization = token]_vars

\* C30: offline interception does not look at the path: while connectivity
\* is down a POST to the authentication endpoints /auth/login and
\* /auth/register is enqueued like any mutation, and its full request body
\* stays in the Queue Store until a sync run dequeues it.
C30_AuthCallsQueued ==
    [][/\ (IsCall /\ ~online /\ ~mounted) =>
            /\ last'.result = "OfflineError"
            /\ ~last'.network
            /\ Len(queue') = Len(queue) + 1
            /\ SubSeq(queue', 1, Len(queue)) = queue
            /\ Last(queue').config.url \in {LoginUrl, RegisterUrl}
            /\ Last(queue').config.data.body = "credentials"
       /\ \A j \in 1..Len(queue) :
            queue[j].config.url \in {LoginUrl, RegisterUrl} =>
                \/ \E i \in 1..Len(queue') : queue'[i] = queue[j]
                \/ \E r \in 1..Len(runs) :
                      ReplayEnded(r) /\ Current(r).id = queue[j].id]_vars

====
